---- MODULE Spec2Model ----
(***************************************************************************)
(* Model of sidecar/tts-server.py: a persistent TTS subprocess.  A reader *)
(* thread parses JSON lines from stdin and either sets the interrupt      *)
(* event or enqueues the command; the main thread loads the model, warms  *)
(* up, writes READY, and then serves the queue, streaming length-prefixed *)
(* PCM frames to stdout.                                                  *)
(***************************************************************************)
EXTENDS Integers, Sequences, FiniteSets, TLC

\* ------------------------------------------------------------------ bounds
\* Number of input lines the reader may consume.
MaxLines == 3
\* Number of chunks the model may yield over the whole run.
MaxChunks == 2

\* ------------------------------------------------------------- JSON values
\* A text value of a command object: absent, a string (sequence of
\* characters) or a non-string JSON value (null).
TextVals ==
  { [t |-> "absent", s |-> <<>>],
    [t |-> "str",    s |-> <<>>],
    [t |-> "str",    s |-> <<" ">>],
    [t |-> "str",    s |-> <<"a">>],
    [t |-> "null",   s |-> <<>>] }

NoText == [t |-> "absent", s |-> <<>>]

\* Input lines.  kind: "blank" (empty after strip), "garbage" (json.loads
\* raises JSONDecodeError), "nonobj" (valid JSON that is not an object, such
\* as 42 or []), "obj" (a JSON object; cmd is the value of its "cmd" field,
\* "none" when the field is missing).
Lines ==
  { [kind |-> k, cmd |-> "none", text |-> NoText] : k \in {"blank", "garbage", "nonobj"} }
  \cup { [kind |-> "obj", cmd |-> c, text |-> NoText] : c \in {"interrupt", "quit", "other", "none"} }
  \cup { [kind |-> "obj", cmd |-> "generate", text |-> tv] : tv \in TextVals }

\* Audio chunks the model may yield: sequences of samples, each sample an
\* integer number of halves (-1 is -0.5, -3 is -1.5).
Chunks == { <<>>, <<-3, -1>> }

NoCmd == [cmd |-> "none", text |-> NoText, seq |-> 0]

\* ------------------------------------------------------------ pure helpers
IsSpace(c) == c = " "

\* str.strip(): drop leading and trailing whitespace.
RECURSIVE LStrip(_)
LStrip(s) == IF s # <<>> /\ IsSpace(Head(s)) THEN LStrip(Tail(s)) ELSE s

RECURSIVE RStrip(_)
RStrip(s) ==
  IF s # <<>> /\ IsSpace(s[Len(s)]) THEN RStrip(SubSeq(s, 1, Len(s) - 1)) ELSE s

Strip(s) == RStrip(LStrip(s))

\* A lookup without the default: a missing field stays missing.
GetTextRaw(c) == c.text

\* cmd.get("text", ""): the default only replaces a missing field.
GetText(c) == IF c.text.t = "absent" THEN [t |-> "str", s |-> <<>>] ELSE c.text

\* np.clip(audio, -1.0, 1.0) on a sample given in halves.
Clip(x) == IF x < -2 THEN -2 ELSE IF x > 2 THEN 2 ELSE x

\* (clamped * 32767).astype(np.int16): truncation toward zero, 16-bit wrap.
ToInt16(x) ==
  LET p == x * 32767
      t == IF p >= 0 THEN p \div 2 ELSE -((-p) \div 2)
      u == t % 65536
  IN  IF u >= 32768 THEN u - 65536 ELSE u

\* int16.tobytes(): little-endian two's complement.
Int16LE(v) == LET u == v % 65536 IN << u % 256, u \div 256 >>

RECURSIVE float32_to_int16_pcm(_)
float32_to_int16_pcm(audio) ==
  IF audio = <<>> THEN <<>>
  ELSE Int16LE(ToInt16(Clip(Head(audio)))) \o float32_to_int16_pcm(Tail(audio))

\* The same four bytes in little-endian order, as struct.pack("<I", n).
PackU32LE(n) ==
  << n % 256, (n \div 256) % 256, (n \div 65536) % 256, (n \div 16777216) % 256 >>

\* struct.pack(">I", n)
PackU32BE(n) ==
  << (n \div 16777216) % 256, (n \div 65536) % 256, (n \div 256) % 256, n % 256 >>

\* One frame as written to stdout; gen and kind are bookkeeping (which
\* generation wrote it, and by which writer).
AudioFrame(g, pcm_bytes) ==
  [gen |-> g, kind |-> "data", hdr |-> PackU32BE(Len(pcm_bytes)), payload |-> pcm_bytes]

EndFrame(g) ==
  [gen |-> g, kind |-> "end", hdr |-> PackU32BE(0), payload |-> <<>>]

\* ------------------------------------------------------------------- state
VARIABLES
  pc,             \* position of the main thread
  rpc,            \* position of the stdin reader thread
  interrupted,    \* threading.Event
  command_queue,  \* queue.Queue
  cmd,            \* the command the main thread last dequeued
  nYield,         \* chunks the current model stream has yielded
  result,         \* the chunk last pulled from the stream
  out,            \* stdout: frames written and flushed
  err,            \* stderr: lines written
  exitCode,       \* process exit code, -1 while running
  nRead,          \* input lines consumed by the reader
  nChunks,        \* chunks the model has yielded since startup
  enq,            \* history: commands put on the queue, in order (tags)
  deq,            \* history: commands taken from the queue, in order (tags)
  pulled,         \* history: chunks pulled in the current generation
  fresh,          \* history: an interrupt command was read since the
                  \*          generate branch last ran its clear
  setAt,          \* history: nYield when the flag was first set during
                  \*          the current generation, -1 if not set in it
  spared,         \* history: lines of the generate commands that were
                  \*          queued when an interrupt was read during a
                  \*          running generation
  broke,          \* history: numbers of the generations that ended by
                  \*          the loop's break
  nObj,           \* history: lines read that parsed to an object whose
                  \*          cmd is not "interrupt"
  erased,         \* history: the event was set when the generate branch
                  \*          ran its clear for the current generation
  how             \* history: how the last generation ended

vars == << pc, rpc, interrupted, command_queue, cmd, nYield, result, out, err,
           exitCode, nRead, nChunks, enq, deq, pulled, fresh, setAt, spared, broke,
           nObj, erased, how >>

Init ==
  /\ pc = "load"
  /\ rpc = "unstarted"
  /\ interrupted = FALSE
  /\ command_queue = <<>>
  /\ cmd = NoCmd
  /\ nYield = 0
  /\ result = <<>>
  /\ out = <<>>
  /\ err = <<>>
  /\ exitCode = -1
  /\ nRead = 0
  /\ nChunks = 0
  /\ enq = <<>>
  /\ deq = <<>>
  /\ pulled = <<>>
  /\ fresh = FALSE
  /\ setAt = -1
  /\ spared = {}
  /\ broke = {}
  /\ nObj = 0
  /\ erased = FALSE
  /\ how = "none"

Log(msg) == err' = Append(err, msg)

\* What the histories keep of a command: the branch of the main loop it
\* takes and its number.
Tag(c) ==
  [cmd |-> IF c.cmd \in {"generate", "quit"} THEN c.cmd ELSE "unknown", seq |-> c.seq]

\* Positions of the main thread inside handle_generate.
GenPcs == {"hg_strip", "hg_invoke", "hg_pull", "hg_check", "hg_write", "hg_end"}

\* ------------------------------------------------------- startup (main)
\* load_model succeeds.
LoadOk ==
  /\ pc = "load"
  /\ pc' = "warmup"
  /\ err' = err \o << "Loading model", "Model loaded" >>
  /\ UNCHANGED << broke, nObj, erased, rpc, interrupted, command_queue, cmd, nYield, result, out,
                  exitCode, nRead, nChunks, enq, deq, pulled, fresh, setAt, spared, how >>

\* load_model raises: log and sys.exit(1).
LoadFail ==
  /\ pc = "load"
  /\ pc' = "exited"
  /\ exitCode' = 1
  /\ err' = err \o << "Loading model", "ERROR: Failed to load model" >>
  /\ UNCHANGED << broke, nObj, erased, rpc, interrupted, command_queue, cmd, nYield, result, out,
                  nRead, nChunks, enq, deq, pulled, fresh, setAt, spared, how >>

\* The warm-up generation, run to its end or to an exception.
WarmUp ==
  /\ pc = "warmup"
  /\ pc' = "ready"
  /\ \E ok \in BOOLEAN :
       err' = err \o << "Warming up...",
                        IF ok THEN "Warm-up done" ELSE "WARNING: Warm-up failed" >>
  /\ UNCHANGED << broke, nObj, erased, rpc, interrupted, command_queue, cmd, nYield, result, out,
                  exitCode, nRead, nChunks, enq, deq, pulled, fresh, setAt, spared, how >>

\* A startup that signalled readiness only after a successful warm-up.
WriteReadyIfWarm ==
  /\ pc = "ready"
  /\ pc' = "start"
  /\ err' = IF err[Len(err)] = "Warm-up done" THEN Append(err, "READY") ELSE err
  /\ UNCHANGED << broke, nObj, erased, rpc, interrupted, command_queue, cmd, nYield, result, out,
                  exitCode, nRead, nChunks, enq, deq, pulled, fresh,
                  setAt, spared, how >>

\* sys.stderr.write("READY\n")
WriteReady ==
  /\ pc = "ready"
  /\ pc' = "start"
  /\ Log("READY")
  /\ UNCHANGED << broke, nObj, erased, rpc, interrupted, command_queue, cmd, nYield, result, out,
                  exitCode, nRead, nChunks, enq, deq, pulled, fresh, setAt, spared, how >>

\* reader.start()
StartReader ==
  /\ pc = "start"
  /\ pc' = "get"
  /\ rpc' = "read"
  /\ UNCHANGED << broke, nObj, erased, interrupted, command_queue, cmd, nYield, result, out, err,
                  exitCode, nRead, nChunks, enq, deq, pulled, fresh, setAt, spared, how >>

\* ------------------------------------------------------ stdin_reader thread
\* A reader that could read only while the main thread waits on the queue.
ReaderCanReadWhenIdle == rpc = "read" /\ pc = "get" /\ nRead < MaxLines

\* The reader runs while the process lives and input remains.
ReaderCanRead == rpc = "read" /\ pc # "exited" /\ nRead < MaxLines

\* A reader that put every parsed object on the queue.
RouteAllToQueue(c) == "queue"

\* Where a parsed object goes: the interrupt event or the queue.
Route(c) == IF c = "interrupt" THEN "flag" ELSE "queue"

\* A line that is empty after strip(): skipped.
ReadBlank ==
  /\ ReaderCanRead
  /\ nRead' = nRead + 1
  /\ UNCHANGED << broke, nObj, erased, pc, rpc, interrupted, command_queue, cmd, nYield, result, out, err,
                  exitCode, nChunks, enq, deq, pulled, fresh, setAt, spared, how >>

\* json.loads raises JSONDecodeError: logged, skipped.
ReadGarbage ==
  /\ ReaderCanRead
  /\ nRead' = nRead + 1
  /\ Log("ERROR: Invalid JSON")
  /\ UNCHANGED << broke, nObj, erased, pc, rpc, interrupted, command_queue, cmd, nYield, result, out,
                  exitCode, nChunks, enq, deq, pulled, fresh, setAt, spared, how >>

\* json.loads returns a value that is not a dict: cmd.get raises
\* AttributeError, which nothing in the thread catches; the thread ends.
ReadNonObject ==
  /\ ReaderCanRead
  /\ nRead' = nRead + 1
  /\ rpc' = "crashed"
  /\ Log("Exception in thread")
  /\ UNCHANGED << broke, nObj, erased, pc, interrupted, command_queue, cmd, nYield, result, out,
                  exitCode, nChunks, enq, deq, pulled, fresh, setAt, spared, how >>

\* A JSON object: interrupt sets the event, anything else is enqueued.
ReadObject ==
  /\ ReaderCanRead
  /\ \E line \in { l \in Lines : l.kind = "obj" } :
       /\ IF Route(line.cmd) = "flag"
          THEN /\ interrupted' = TRUE
               /\ setAt' = IF setAt = -1 /\ pc \in GenPcs THEN nYield ELSE setAt
               /\ spared' = IF pc \in GenPcs
                             THEN spared \cup { command_queue[i].seq :
                                     i \in { j \in 1..Len(command_queue) :
                                              command_queue[j].cmd = "generate" } }
                             ELSE spared
               /\ UNCHANGED << command_queue, enq >>
          ELSE LET c == [cmd |-> line.cmd, text |-> line.text, seq |-> Len(enq) + 1]
               IN  /\ command_queue' = Append(command_queue, c)
                   /\ enq' = Append(enq, Tag(c))
                   /\ UNCHANGED << interrupted, setAt, spared >>
       /\ fresh' = (fresh \/ line.cmd = "interrupt")
       /\ nObj' = IF line.cmd = "interrupt" THEN nObj ELSE nObj + 1
  /\ nRead' = nRead + 1
  /\ UNCHANGED << broke, erased, pc, rpc, cmd, nYield, result, out, err,
                  exitCode, nChunks, deq, pulled, how >>

\* End of input: the for loop ends and the thread returns.
ReadEof ==
  /\ rpc = "read" /\ pc # "exited"
  /\ rpc' = "eof"
  /\ UNCHANGED << broke, nObj, erased, pc, interrupted, command_queue, cmd, nYield, result, out, err,
                  exitCode, nRead, nChunks, enq, deq, pulled, fresh, setAt, spared, how >>

\* ------------------------------------------------------ main loop (main)
\* A get() that returned the newest element instead of the oldest.
QueueGetLast(q) == q[Len(q)]

\* Which element command_queue.get() returns.
QueueGet(q) == Head(q)
QueueRest(q) == Tail(q)

\* cmd = command_queue.get(): blocks while the queue is empty.
Get ==
  /\ pc = "get"
  /\ command_queue # <<>>
  /\ cmd' = QueueGet(command_queue)
  /\ command_queue' = QueueRest(command_queue)
  /\ deq' = Append(deq, Tag(QueueGet(command_queue)))
  /\ pc' = "dispatch"
  /\ UNCHANGED << broke, nObj, erased, rpc, interrupted, nYield, result, out, err,
                  exitCode, nRead, nChunks, enq, pulled, fresh, setAt, spared, how >>

\* A generate branch that left the event as it was.
ClearedFlagKept(f) == f

\* The value of the event after the generate branch's interrupted.clear().
ClearedFlag(f) == FALSE

\* cmd == "generate": clear the event, enter handle_generate.
DispatchGenerate ==
  /\ pc = "dispatch"
  /\ cmd.cmd = "generate"
  /\ interrupted' = ClearedFlag(interrupted)
  /\ fresh' = FALSE
  /\ setAt' = -1
  /\ nYield' = 0
  /\ pulled' = <<>>
  /\ result' = <<>>
  /\ how' = "running"
  /\ erased' = interrupted
  /\ pc' = "hg_strip"
  /\ UNCHANGED << broke, nObj, rpc, command_queue, cmd, out, err, exitCode, nRead, nChunks,
                  enq, deq, spared >>

\* A quit branch without the break: the loop goes on.
DispatchQuitContinues ==
  /\ pc = "dispatch"
  /\ cmd.cmd = "quit"
  /\ pc' = "get"
  /\ UNCHANGED << broke, nObj, erased, rpc, interrupted, command_queue, cmd, nYield, result, out, err,
                  exitCode, nRead, nChunks, enq, deq, pulled, fresh,
                  setAt, spared, how >>

\* cmd == "quit": break.
DispatchQuit ==
  /\ pc = "dispatch"
  /\ cmd.cmd = "quit"
  /\ pc' = "shutdown"
  /\ UNCHANGED << broke, nObj, erased, rpc, interrupted, command_queue, cmd, nYield, result, out, err,
                  exitCode, nRead, nChunks, enq, deq, pulled, fresh, setAt, spared, how >>

\* An else branch that also cleared the event.
DispatchUnknownClears ==
  /\ pc = "dispatch"
  /\ cmd.cmd \notin {"generate", "quit"}
  /\ Log("ERROR: Unknown command")
  /\ interrupted' = FALSE
  /\ pc' = "get"
  /\ UNCHANGED << broke, nObj, erased, rpc, command_queue, cmd, nYield, result, out,
                  exitCode, nRead, nChunks, enq, deq, pulled, fresh, setAt, spared, how >>

\* Any other cmd value, a missing one included: logged, loop continues.
DispatchUnknown ==
  /\ pc = "dispatch"
  /\ cmd.cmd \notin {"generate", "quit"}
  /\ Log("ERROR: Unknown command")
  /\ pc' = "get"
  /\ UNCHANGED << broke, nObj, erased, rpc, interrupted, command_queue, cmd, nYield, result, out,
                  exitCode, nRead, nChunks, enq, deq, pulled, fresh, setAt, spared, how >>

\* log("Shutting down"); main returns and the process exits with code 0.
Shutdown ==
  /\ pc = "shutdown"
  /\ Log("Shutting down")
  /\ pc' = "exited"
  /\ exitCode' = 0
  /\ UNCHANGED << broke, nObj, erased, rpc, interrupted, command_queue, cmd, nYield, result, out,
                  nRead, nChunks, enq, deq, pulled, fresh, setAt, spared, how >>

\* -------------------------------------------------------- handle_generate
\* write_end_marker(): the zero-length frame, flushed.
write_end_marker(g) == out' = Append(out, EndFrame(g))

\* `not text.strip()` when text is not a string: AttributeError, raised
\* before the try block, so it leaves handle_generate and main uncaught and
\* the interpreter exits with code 1.
HgTextNotStr ==
  /\ pc = "hg_strip"
  /\ GetText(cmd).t # "str"
  /\ Log("Traceback")
  /\ how' = "crash"
  /\ pc' = "exited"
  /\ exitCode' = 1
  /\ UNCHANGED << broke, nObj, erased, rpc, interrupted, command_queue, cmd, nYield, result, out,
                  nRead, nChunks, enq, deq, pulled, fresh, setAt, spared >>

\* Empty or whitespace-only text: write_end_marker() and return.
HgBlank ==
  /\ pc = "hg_strip"
  /\ GetText(cmd).t = "str"
  /\ Strip(GetText(cmd).s) = <<>>
  /\ write_end_marker(cmd.seq)
  /\ how' = "blank"
  /\ pc' = "get"
  /\ UNCHANGED << broke, nObj, erased, rpc, interrupted, command_queue, cmd, nYield, result, err,
                  exitCode, nRead, nChunks, enq, deq, pulled, fresh, setAt, spared >>

\* Text to synthesize: enter the try block.
HgText ==
  /\ pc = "hg_strip"
  /\ GetText(cmd).t = "str"
  /\ Strip(GetText(cmd).s) # <<>>
  /\ pc' = "hg_invoke"
  /\ UNCHANGED << broke, nObj, erased, rpc, interrupted, command_queue, cmd, nYield, result, out, err,
                  exitCode, nRead, nChunks, enq, deq, pulled, fresh, setAt, spared, how >>

\* results = model.generate(...) returns the stream.
HgInvoke ==
  /\ pc = "hg_invoke"
  /\ pc' = "hg_pull"
  /\ UNCHANGED << broke, nObj, erased, rpc, interrupted, command_queue, cmd, nYield, result, out, err,
                  exitCode, nRead, nChunks, enq, deq, pulled, fresh, setAt, spared, how >>

\* model.generate(...) raises: the except clause logs.
HgInvokeRaise ==
  /\ pc = "hg_invoke"
  /\ Log("ERROR: Generation failed")
  /\ how' = "raise"
  /\ pc' = "hg_end"
  /\ UNCHANGED << broke, nObj, erased, rpc, interrupted, command_queue, cmd, nYield, result, out,
                  exitCode, nRead, nChunks, enq, deq, pulled, fresh, setAt, spared >>

\* The for loop pulls the next chunk from the stream.
HgPull ==
  /\ pc = "hg_pull"
  /\ nChunks < MaxChunks
  /\ nChunks' = nChunks + 1
  /\ \E c \in Chunks :
       /\ result' = c
       /\ pulled' = Append(pulled, c)
  /\ nYield' = nYield + 1
  /\ pc' = "hg_check"
  /\ UNCHANGED << broke, nObj, erased, rpc, interrupted, command_queue, cmd, out, err,
                  exitCode, nRead, enq, deq, fresh, setAt, spared, how >>

\* The stream is exhausted: the loop ends.
HgPullStop ==
  /\ pc = "hg_pull"
  /\ how' = "stop"
  /\ pc' = "hg_end"
  /\ UNCHANGED << broke, nObj, erased, rpc, interrupted, command_queue, cmd, nYield, result, out, err,
                  exitCode, nRead, nChunks, enq, deq, pulled, fresh, setAt, spared >>

\* The stream raises instead of yielding: the except clause logs.
HgPullRaise ==
  /\ pc = "hg_pull"
  /\ Log("ERROR: Generation failed")
  /\ how' = "raise"
  /\ pc' = "hg_end"
  /\ UNCHANGED << broke, nObj, erased, rpc, interrupted, command_queue, cmd, nYield, result, out,
                  exitCode, nRead, nChunks, enq, deq, pulled, fresh, setAt, spared >>

\* A loop body that never looked at the event.
ShouldBreakNever(flag) == FALSE

\* Whether the loop body breaks on this chunk.
ShouldBreak(flag) == flag

\* if interrupted.is_set(): break
HgCheck ==
  /\ pc = "hg_check"
  /\ IF ShouldBreak(interrupted)
     THEN /\ how' = "break"
          /\ broke' = broke \cup { cmd.seq }
          /\ pc' = "hg_end"
     ELSE /\ pc' = "hg_write"
          /\ UNCHANGED << how, broke >>
  /\ UNCHANGED << rpc, interrupted, command_queue, cmd, nYield, result, out, err,
                  exitCode, nRead, nChunks, enq, deq, pulled, fresh, setAt, spared,
                  nObj, erased >>

\* Encode the chunk and write it: header, payload, flush.
write_audio_chunk(g, pcm_bytes) == out' = Append(out, AudioFrame(g, pcm_bytes))

HgWrite ==
  /\ pc = "hg_write"
  /\ write_audio_chunk(cmd.seq, float32_to_int16_pcm(result))
  /\ pc' = "hg_pull"
  /\ UNCHANGED << broke, nObj, erased, rpc, interrupted, command_queue, cmd, nYield, result, err,
                  exitCode, nRead, nChunks, enq, deq, pulled, fresh, setAt, spared, how >>

\* A handle_generate that cleared the event on its way out.
HgEndClears ==
  /\ pc = "hg_end"
  /\ write_end_marker(cmd.seq)
  /\ interrupted' = FALSE
  /\ pc' = "get"
  /\ UNCHANGED << broke, nObj, erased, rpc, command_queue, cmd, nYield, result, err,
                  exitCode, nRead, nChunks, enq, deq, pulled, fresh, setAt, spared, how >>

\* write_end_marker() after the try block; handle_generate returns.
HgEnd ==
  /\ pc = "hg_end"
  /\ write_end_marker(cmd.seq)
  /\ pc' = "get"
  /\ UNCHANGED << broke, nObj, erased, rpc, interrupted, command_queue, cmd, nYield, result, err,
                  exitCode, nRead, nChunks, enq, deq, pulled, fresh, setAt, spared, how >>

\* ------------------------------------------------------------ specification
Next ==
  \/ LoadOk \/ LoadFail \/ WarmUp \/ WriteReady \/ StartReader
  \/ ReadBlank \/ ReadGarbage \/ ReadNonObject \/ ReadObject \/ ReadEof
  \/ Get \/ DispatchGenerate \/ DispatchQuit \/ DispatchUnknown \/ Shutdown
  \/ HgTextNotStr \/ HgBlank \/ HgText \/ HgInvoke \/ HgInvokeRaise
  \/ HgPull \/ HgPullStop \/ HgPullRaise \/ HgCheck \/ HgWrite \/ HgEnd

Spec == Init /\ [][Next]_vars

\* The main thread runs whenever it can take a step (it blocks only in
\* command_queue.get()); nothing is assumed about when input arrives.
Main ==
  \/ LoadOk \/ LoadFail \/ WarmUp \/ WriteReady \/ StartReader
  \/ Get \/ DispatchGenerate \/ DispatchQuit \/ DispatchUnknown \/ Shutdown
  \/ HgTextNotStr \/ HgBlank \/ HgText \/ HgInvoke \/ HgInvokeRaise
  \/ HgPull \/ HgPullStop \/ HgPullRaise \/ HgCheck \/ HgWrite \/ HgEnd

FairSpec == Spec /\ WF_vars(Main)

\* ------------------------------------------------- vocabulary of the claims
\* The frames generation g (the generate command enqueued as number g) has written.
FramesOf(g) == SelectSeq(out, LAMBDA f : f.gen = g)
DataFramesOf(g) == SelectSeq(out, LAMBDA f : f.gen = g /\ f.kind = "data")
EndFramesOf(g) == SelectSeq(out, LAMBDA f : f.gen = g /\ f.kind = "end")

\* A frame whose length prefix is zero, as the consumer sees it.
ZeroLength(f) == f.hdr = << 0, 0, 0, 0 >>

\* Lines of the generate commands for which handle_generate has been entered.
Begun ==
  { deq[i].seq : i \in { j \in 1..Len(deq) :
       deq[j].cmd = "generate" /\ ~(j = Len(deq) /\ pc = "dispatch") } }

\* handle_generate is executing for generation g.
Running(g) == pc \in GenPcs /\ cmd.seq = g

\* Generations whose handle_generate call is over, by return or by exception.
Executed == { g \in Begun : ~Running(g) }

\* handle_generate has just returned for the command in cmd.
LastGenOver == pc = "get" /\ cmd.cmd = "generate"

\* The payloads of frames fs are the encodings of the first Len(fs) chunks cs.
EncodesPrefix(fs, cs) ==
  /\ Len(fs) <= Len(cs)
  /\ \A j \in 1..Len(fs) :
       /\ fs[j].payload = float32_to_int16_pcm(cs[j])
       /\ fs[j].hdr = PackU32BE(Len(fs[j].payload))

Count(seq, x) == Cardinality({ i \in 1..Len(seq) : seq[i] = x })

\* -------------------------------------------------------------------- C1
\* C1: every execution of handle_generate for a dequeued generate command
\* writes exactly one zero-length frame, and it is the last frame of that
\* generation.
C1_ExactlyOneZeroFrameLast ==
  \A g \in Executed :
    LET fs == FramesOf(g)
    IN  /\ Len(fs) >= 1
        /\ ZeroLength(fs[Len(fs)])
        /\ \A j \in 1..(Len(fs) - 1) : ~ZeroLength(fs[j])

\* -------------------------------------------------------------------- C5
\* C5: a line that is not a well-formed command is discarded and the reader
\* keeps running: while the process lives, a started reader is either
\* reading or has seen the end of input.
C5_ReaderSurvivesBadLines ==
  (rpc # "unstarted" /\ pc # "exited") => rpc \in {"read", "eof"}

\* -------------------------------------------------------------------- C6
\* C6: the process terminates only on model-load failure at startup (the
\* reader was never started) or on quit; no generate command ends it.
C6_OnlyLoadFailureOrQuitExits ==
  pc = "exited" => (rpc = "unstarted" \/ cmd.cmd = "quit")

\* -------------------------------------------------------------------- C7
\* C7: no data frame on the output has length zero.
C7_NoZeroLengthDataFrame ==
  \A i \in 1..Len(out) : out[i].kind = "data" => ~ZeroLength(out[i])

\* -------------------------------------------------------------------- C2
\* C2: generations run one at a time in the order their commands were read:
\* a frame of generation B is preceded by the end-marker of every generate
\* command read before B, frames never go back to an earlier generation, and
\* at most one begun generation lacks its end-marker.
C2_OneAtATimeInOrder ==
  /\ \A j \in 1..Len(out) : \A i \in 1..Len(enq) :
       (enq[i].cmd = "generate" /\ enq[i].seq < out[j].gen)
         => \E k \in 1..(j - 1) : out[k].gen = enq[i].seq /\ out[k].kind = "end"
  /\ \A i, j \in 1..Len(out) : i < j => out[i].gen <= out[j].gen
  /\ Cardinality({ g \in Begun : EndFramesOf(g) = <<>> }) <= 1

\* Two generations have both written data frames, the later one's after the
\* earlier one's end-marker.
C2_Witness ==
  \E i, j, k \in 1..Len(out) :
    /\ i < k /\ k < j
    /\ out[i].kind = "data" /\ out[j].kind = "data"
    /\ out[k].kind = "end" /\ out[k].gen = out[i].gen
    /\ out[i].gen < out[j].gen

\* -------------------------------------------------------------------- C3
C3_SparedInvariant ==
  \A g \in spared :
    /\ \/ \E i \in 1..Len(command_queue) : command_queue[i].seq = g
       \/ \E i \in 1..Len(deq) : deq[i].seq = g
    /\ (Running(g) /\ interrupted) => fresh
    /\ (LastGenOver /\ cmd.seq = g /\ ~fresh)
         => /\ how # "break"
            /\ Len(DataFramesOf(g)) = Len(pulled)
            /\ EncodesPrefix(DataFramesOf(g), pulled)

\* C3: an interrupt read while a generation runs leaves a queued generate
\* command B untouched: reading a line that is not enqueued (an interrupt
\* among them) does not change the queue, B stays queued until it is
\* dequeued, the flag is set during B only if an interrupt was read after
\* B's clear, and without such an interrupt B is not cut short: every chunk
\* its stream yielded is written.
C3_InterruptSparesQueued ==
  /\ []C3_SparedInvariant
  /\ [][(nRead' > nRead /\ enq' = enq) => command_queue' = command_queue]_vars

\* A generate command that was queued when an interrupt hit the running
\* generation, which broke off, has itself run to the end of its stream and
\* written its chunk.
C3_Witness ==
  \E g \in spared :
    /\ LastGenOver /\ cmd.seq = g
    /\ how = "stop"
    /\ Len(pulled) >= 1
    /\ Len(DataFramesOf(g)) = Len(pulled)
    /\ \E h \in broke : h < g

\* -------------------------------------------------------------------- C4
\* C4: when the flag is set after chunk k was pulled and before chunk k+1
\* is pulled, the generation writes at most k data frames, they encode the
\* first chunks of the stream in order, and once chunk k+1 exists the loop
\* breaks on it: the output is a strict prefix of the stream followed by
\* exactly one end-marker frame.
C4_InterruptTruncatesToPrefix ==
  LET g == cmd.seq
      d == DataFramesOf(g)
  IN  /\ ((Running(g) \/ LastGenOver) /\ setAt >= 0)
           => (Len(d) <= setAt /\ EncodesPrefix(d, pulled))
      /\ (LastGenOver /\ setAt >= 0 /\ Len(pulled) > setAt)
           => /\ how = "break"
              /\ Len(d) < Len(pulled)
              /\ FramesOf(g) = d \o << EndFrame(g) >>

\* The flag was set after the first chunk was pulled; the second chunk was
\* pulled and dropped; one data frame and the end-marker were written.
C4_Witness ==
  /\ LastGenOver
  /\ setAt = 1
  /\ Len(pulled) = 2
  /\ how = "break"
  /\ Len(DataFramesOf(cmd.seq)) = 1
  /\ ~ZeroLength(DataFramesOf(cmd.seq)[1])

\* -------------------------------------------------------------------- C8
EnqueuedBeforeAnyQuit(n) ==
  \E i \in 1..Len(enq) :
    /\ enq[i].seq = n /\ enq[i].cmd = "generate"
    /\ \A j \in 1..(i - 1) : enq[j].cmd # "quit"

GenerateDequeued(n) ==
  \E i \in 1..Len(deq) : deq[i].seq = n /\ deq[i].cmd = "generate"

\* C8: with the main thread scheduled fairly and finite model streams, a
\* generate command enqueued with no quit ahead of it is eventually
\* dequeued, and a dequeued generate command is eventually followed by its
\* end-marker frame.
C8_EveryGenerateReachesEndMarker ==
  \A n \in 1..MaxLines :
    /\ EnqueuedBeforeAnyQuit(n) ~> GenerateDequeued(n)
    /\ GenerateDequeued(n) ~> (EndFramesOf(n) # <<>>)

\* -------------------------------------------------------------------- C9
QuitDequeued == \E i \in 1..Len(deq) : deq[i].cmd = "quit"

C9_QuitInvariant ==
  /\ \A q \in 1..Len(deq) : deq[q].cmd = "quit" =>
       /\ q = Len(deq)
       /\ \A i \in 1..Len(enq) :
            (enq[i].cmd = "generate" /\ enq[i].seq < deq[q].seq)
              => Len(EndFramesOf(enq[i].seq)) = 1
  /\ QuitDequeued => pc \in {"dispatch", "shutdown", "exited"}
  /\ (QuitDequeued /\ pc = "exited") => exitCode = 0

\* C9: when quit is dequeued every generate command enqueued ahead of it
\* has written its end-marker; from then on no frame is written and no
\* command is dequeued, and the process exits with code 0.
C9_QuitAfterQueuedWork ==
  /\ []C9_QuitInvariant
  /\ [][QuitDequeued => (out' = out /\ deq' = deq)]_vars

\* The process has exited on quit with a command still queued behind it,
\* after a generation ahead of the quit wrote a data frame and its marker.
C9_Witness ==
  /\ pc = "exited" /\ exitCode = 0
  /\ QuitDequeued
  /\ command_queue # <<>>
  /\ \E i \in 1..Len(out) : out[i].kind = "data"

\* ------------------------------------------------------------------- C10
ReadyCount == Count(err, "READY")

\* C10: READY is written at most once, directly after the one warm-up has
\* ended (well or badly); it has been written exactly once as soon as the
\* reader runs, a line is read, a command is dequeued or a frame is
\* written.  After a failed model load READY is never written, nothing is
\* read or processed and the process has exited with a non-zero code.
C10_ReadyOnceAfterWarmUp ==
  /\ ReadyCount <= 1
  /\ (rpc # "unstarted" \/ nRead > 0 \/ deq # <<>> \/ out # <<>>) => ReadyCount = 1
  /\ \A i \in 1..Len(err) : err[i] = "READY" =>
       /\ i > 1
       /\ err[i - 1] \in {"Warm-up done", "WARNING: Warm-up failed"}
       /\ Count(err, "Warming up...") = 1
  /\ Count(err, "Warming up...") <= 1
  /\ Count(err, "ERROR: Failed to load model") > 0 =>
       /\ ReadyCount = 0
       /\ rpc = "unstarted" /\ nRead = 0 /\ deq = <<>> /\ out = <<>>
       /\ pc = "exited" /\ exitCode > 0

\* The warm-up failed, READY was written once all the same, and a frame has
\* been written since.
C10_Witness ==
  /\ ReadyCount = 1
  /\ Count(err, "WARNING: Warm-up failed") = 1
  /\ out # <<>>

\* ------------------------------------------------------------------- C11
\* The text of command c is empty, whitespace-only or absent.
BlankText(c) ==
  \/ c.text.t = "absent"
  \/ c.text.t = "str" /\ \A i \in 1..Len(c.text.s) : c.text.s[i] = " "

C11_BlankInvariant ==
  (cmd.cmd = "generate" /\ BlankText(cmd)) =>
    /\ pc \in GenPcs => pc = "hg_strip"
    /\ LastGenOver =>
         /\ Len(FramesOf(cmd.seq)) = 1
         /\ FramesOf(cmd.seq)[1].hdr = << 0, 0, 0, 0 >>
         /\ FramesOf(cmd.seq)[1].payload = <<>>
         /\ pulled = <<>>

\* C11: a generate command whose text is empty, whitespace-only or absent
\* never reaches the model invocation: the one step handle_generate takes
\* for it writes the zero-length frame and nothing else, logs nothing, pulls
\* no chunk, and returns to the queue; the generation's output is that one
\* frame.
C11_BlankTextSkipsModel ==
  /\ []C11_BlankInvariant
  /\ [][(pc = "hg_strip" /\ BlankText(cmd) /\ pc' # pc)
         => /\ pc' = "get"
            /\ out' = Append(out, EndFrame(cmd.seq))
            /\ err' = err
            /\ nChunks' = nChunks
            /\ exitCode' = exitCode]_vars

\* A whitespace-only generate has returned with its single zero-length
\* frame as the second frame of the output; the model never yielded a chunk.
C11_Witness ==
  /\ LastGenOver
  /\ cmd.text = [t |-> "str", s |-> << " " >>]
  /\ FramesOf(cmd.seq) = << EndFrame(cmd.seq) >>
  /\ Len(out) = 2
  /\ nChunks = 0

\* ------------------------------------------------------------------- C12
\* The command in cmd is neither generate nor quit.
UnknownCmd(c) == c.cmd # "generate" /\ c.cmd # "quit"

\* C12: the step the main loop takes on a dequeued command that is neither
\* generate nor quit (a missing cmd field included) appends one ERROR line
\* to the diagnostics, writes no frame, pulls no chunk, leaves the event and
\* the queue as they are, keeps the process alive and goes back to
\* command_queue.get().
C12_UnknownLoggedAndSkipped ==
  [][(pc = "dispatch" /\ UnknownCmd(cmd) /\ pc' # pc)
      => /\ pc' = "get"
         /\ err' = Append(err, "ERROR: Unknown command")
         /\ out' = out
         /\ nChunks' = nChunks
         /\ interrupted' = interrupted
         /\ command_queue' = command_queue
         /\ exitCode' = exitCode]_vars

\* An object without a cmd field was dequeued while the event was set; it
\* has been logged, the event is still set, and the loop is back at the
\* queue with the next command waiting.
C12_Witness ==
  /\ pc = "get"
  /\ cmd.cmd = "none" /\ cmd.seq >= 1
  /\ interrupted
  /\ Count(err, "ERROR: Unknown command") = 1
  /\ out = <<>>
  /\ command_queue # <<>>

\* ------------------------------------------------------------------- C13
\* The number a consumer reads from a 4-byte big-endian length prefix.
ReadU32BE(h) == h[1] * 16777216 + h[2] * 65536 + h[3] * 256 + h[4]

\* Frame f is a data frame carrying the PCM encoding of chunk c behind a
\* 4-byte big-endian length prefix.
FrameOfChunk(f, c) ==
  /\ f.kind = "data"
  /\ Len(f.hdr) = 4
  /\ ReadU32BE(f.hdr) = Len(f.payload)
  /\ f.payload = float32_to_int16_pcm(c)

\* Frames fs carry chunks cs, one frame per chunk, in order.
FramesOfChunks(fs, cs) ==
  /\ Len(fs) = Len(cs)
  /\ \A j \in 1..Len(fs) : FrameOfChunk(fs[j], cs[j])

\* C13: in a generation that is neither interrupted nor fails, whenever the
\* loop is about to pull the next chunk every chunk pulled so far is already
\* on the output as its own data frame (4-byte big-endian length, then the
\* PCM encoding), in pull order; after the stream ends the generation's
\* output is exactly those frames followed by the end-marker.
C13_ChunksFramedInOrder ==
  LET g == cmd.seq
  IN  /\ (Running(g) /\ pc = "hg_pull") => FramesOfChunks(FramesOf(g), pulled)
      /\ (Running(g) /\ pc = "hg_check")
           => FramesOfChunks(FramesOf(g), SubSeq(pulled, 1, Len(pulled) - 1))
      /\ (LastGenOver /\ how = "stop")
           => /\ FramesOfChunks(DataFramesOf(g), pulled)
              /\ FramesOf(g) = DataFramesOf(g) \o << EndFrame(g) >>
              /\ ReadU32BE(EndFrame(g).hdr) = 0

\* A generation ran to the end of a two-chunk stream: two data frames with
\* header 00 00 00 04 and payload 01 80 01 c0 (samples -1.5 and -0.5), then
\* the end-marker.
C13_Witness ==
  /\ LastGenOver /\ how = "stop"
  /\ pulled = << << -3, -1 >>, << -3, -1 >> >>
  /\ Len(FramesOf(cmd.seq)) = 3
  /\ \A j \in 1..2 :
       /\ FramesOf(cmd.seq)[j].hdr = << 0, 0, 0, 4 >>
       /\ FramesOf(cmd.seq)[j].payload = << 1, 128, 1, 192 >>
  /\ FramesOf(cmd.seq)[3].hdr = << 0, 0, 0, 0 >>

\* ------------------------------------------------------------------- C14
C14_CheckInvariant ==
  LET g == cmd.seq
      d == DataFramesOf(g)
  IN  /\ Running(g) => (interrupted <=> setAt >= 0)
      /\ ((Running(g) \/ LastGenOver) /\ setAt >= 0)
           => /\ Len(pulled) <= setAt + 1
              /\ Len(d) <= setAt
      /\ (Running(g) /\ setAt >= 0 /\ pc \in {"hg_pull", "hg_write"})
           => Len(pulled) = setAt
      /\ (LastGenOver /\ setAt >= 0 /\ Len(pulled) > setAt) => how = "break"

\* C14: every chunk pulled is followed by one look at the event before it
\* is encoded and written, and a set event is never overlooked: a chunk
\* pulled after the event was set (after this generation's clear) is
\* dropped by the break.  When the event is set at most one pulled chunk is
\* still unwritten, so from then on at most one more data frame is written
\* and at most one more chunk is pulled.
C14_InterruptSeenAtNextCheck ==
  /\ []C14_CheckInvariant
  /\ [][(Len(pulled') = Len(pulled) + 1) => (pc = "hg_pull" /\ pc' = "hg_check")]_vars
  /\ [][(pc = "hg_check" /\ pc' # pc)
         => /\ out' = out
            /\ pc' = IF interrupted THEN "hg_end" ELSE "hg_write"]_vars
  /\ [][(Len(out') > Len(out) /\ out'[Len(out')].kind = "data")
         => (pc = "hg_write" /\ pc' = "hg_pull")]_vars
  /\ [][(setAt = -1 /\ setAt' # -1)
         => /\ setAt' = Len(pulled)
            /\ Len(DataFramesOf(cmd.seq)) >= Len(pulled) - 1]_vars

\* The event was set after the first chunk was pulled; the second chunk
\* has just been pulled and dropped by the break, with one data frame
\* written and the end-marker still to come.
C14_Witness ==
  /\ pc = "hg_end" /\ how = "break"
  /\ interrupted
  /\ setAt = 1
  /\ Len(pulled) = 2
  /\ Len(DataFramesOf(cmd.seq)) = 1
  /\ EndFramesOf(cmd.seq) = <<>>

\* ------------------------------------------------------------------- C15
\* The main loop is in the generate branch, before its clear.
AtGenerateBranch == pc = "dispatch" /\ cmd.cmd = "generate"

\* C15: the event is set exactly when an interrupt command has been read
\* since the last clear; it rises only in a step of the reader that reads
\* an interrupt command, and falls only in the generate branch of the main
\* loop.  That branch runs once per dequeued generate command, right after
\* the dequeue, and leaves the event clear before any chunk is pulled;
\* every other step of the main thread (handle_generate, the quit branch,
\* the unknown-command branch) leaves the event as it is.
C15_FlagSetAndClearedOnlyThere ==
  /\ [](interrupted <=> fresh)
  /\ [][(~interrupted /\ interrupted')
         => (nRead' = nRead + 1 /\ ~fresh /\ fresh' /\ pc' = pc)]_vars
  /\ [][(interrupted /\ ~interrupted') => (AtGenerateBranch /\ pc' = "hg_strip")]_vars
  /\ [][(AtGenerateBranch /\ pc' # pc)
         => (~interrupted' /\ pc' = "hg_strip" /\ pulled' = <<>>)]_vars
  /\ [][(deq' # deq) => (pc = "get" /\ pc' = "dispatch")]_vars
  /\ [][(pc' = "hg_strip" /\ pc # "hg_strip") => (AtGenerateBranch /\ cmd' = cmd)]_vars
  /\ [][(pc' # pc /\ ~AtGenerateBranch) => interrupted' = interrupted]_vars

\* The reader set the event before the generate branch ran; the branch has
\* cleared it and the generation that followed has ended with the event
\* still clear.  An unknown command was dequeued in the same run.
C15_Witness ==
  /\ LastGenOver
  /\ erased
  /\ ~interrupted
  /\ \E i \in 1..Len(deq) : deq[i].cmd = "unknown"

\* ------------------------------------------------------------------- C16
\* The tags of the commands waiting in the queue, oldest first.
QueuedTags == [ i \in 1..Len(command_queue) |-> Tag(command_queue[i]) ]

C16_QueueInvariant ==
  /\ \A i \in 1..Len(command_queue) : command_queue[i].cmd # "interrupt"
  /\ Len(enq) = nObj
  /\ \A i \in 1..Len(enq) : enq[i].seq = i
  /\ enq = deq \o QueuedTags
  /\ deq # <<>> => Tag(cmd) = deq[Len(deq)]

\* C16: no interrupt command is ever in the queue; every line read that is
\* an object with another cmd is appended to the queue once, at the tail,
\* and no other line changes the queue; the main loop takes the head.  So at
\* every moment the commands enqueued so far are, in arrival order, the
\* commands dequeued so far followed by the commands still waiting: none
\* dropped, duplicated or reordered.
C16_QueueIsFifoWithoutInterrupts ==
  /\ []C16_QueueInvariant
  /\ [][(nObj' = nObj + 1)
         => /\ Len(command_queue') = Len(command_queue) + 1
            /\ SubSeq(command_queue', 1, Len(command_queue)) = command_queue
            /\ interrupted' = interrupted]_vars
  /\ [][(nRead' = nRead + 1 /\ nObj' = nObj) => command_queue' = command_queue]_vars
  /\ [][(deq' # deq)
         => /\ cmd' = Head(command_queue)
            /\ command_queue' = Tail(command_queue)]_vars

\* Three lines were read, one of them an interrupt (the event was set when
\* the generate branch cleared it); the two others were enqueued and have
\* both been dequeued, in order.
C16_Witness ==
  /\ nRead = 3 /\ nObj = 2
  /\ erased
  /\ Len(deq) = 2 /\ deq[1].seq = 1 /\ deq[2].seq = 2
  /\ command_queue = <<>>

\* ------------------------------------------------------------------- C17
\* The controller state that a position of the main thread belongs to.
ControllerState(p) ==
  CASE p = "load" -> "Loading"
    [] p = "warmup" -> "WarmingUp"
    [] p \in {"ready", "start", "get", "dispatch"} -> "Ready"
    [] p \in GenPcs -> "Generating"
    [] p = "shutdown" -> "ShuttingDown"
    [] p = "exited" -> "Terminated"

\* The moves between controller states that the state machine allows.
AllowedMoves ==
  { << "Loading", "WarmingUp" >>, << "WarmingUp", "Ready" >>,
    << "Ready", "Generating" >>, << "Generating", "Ready" >>,
    << "Ready", "ShuttingDown" >>, << "ShuttingDown", "Terminated" >>,
    << "Loading", "Terminated" >> }

\* C17: the controller state changes only along Loading -> WarmingUp ->
\* Ready, Ready -> Generating -> Ready, Ready -> ShuttingDown -> Terminated
\* and Loading -> Terminated; nothing leads back into Loading or WarmingUp,
\* and ShuttingDown is entered only from Ready with a quit command just
\* dequeued.
C17_ControllerStateMachine ==
  [][/\ ControllerState(pc') # ControllerState(pc)
        => << ControllerState(pc), ControllerState(pc') >> \in AllowedMoves
     /\ (ControllerState(pc') = "ShuttingDown" /\ ControllerState(pc) # "ShuttingDown")
        => (pc = "dispatch" /\ cmd.cmd = "quit" /\ deq[Len(deq)].cmd = "quit")]_vars

\* ------------------------------------------------------------------- C18
\* The main thread is not blocked: it has not exited and is not waiting in
\* command_queue.get() on an empty queue.
MainCanStep == pc # "exited" /\ (pc = "get" => command_queue # <<>>)

C18_ReaderEnabledInvariant ==
  /\ (rpc = "read" /\ pc # "exited")
       => /\ ENABLED ReadEof
          /\ nRead < MaxLines
               => /\ ENABLED ReadBlank
                  /\ ENABLED ReadGarbage
                  /\ ENABLED ReadNonObject
                  /\ ENABLED ReadObject
  /\ MainCanStep <=> ENABLED Main

\* C18: a running reader can take its next step at every position of the
\* main thread (inside handle_generate, waiting on the queue, anywhere
\* while the process lives): reading the next line, setting the event or
\* enqueuing never waits for the main thread.  A step of the reader leaves
\* the main thread where it is, with its output and its current command
\* untouched, and never blocks it: if the main thread could step before,
\* it can step after.
C18_ReaderAndControllerIndependent ==
  /\ []C18_ReaderEnabledInvariant
  /\ [][((nRead' # nRead \/ rpc' # rpc) /\ rpc # "unstarted")
         => /\ pc' = pc /\ cmd' = cmd /\ out' = out
            /\ pulled' = pulled /\ result' = result /\ exitCode' = exitCode
            /\ MainCanStep => MainCanStep']_vars

\* The reader consumed an interrupt line and set the event while the main
\* thread was inside handle_generate with a chunk about to be written, and
\* it can read the next line right away.
C18_Witness ==
  /\ pc = "hg_write"
  /\ setAt = 1 /\ interrupted
  /\ rpc = "read" /\ nRead < MaxLines
  /\ ENABLED ReadObject

\* ------------------------------------------------------------------- C19
C19_ErasedInvariant ==
  LET g == cmd.seq
  IN  /\ (Running(g) /\ setAt = -1) => ~interrupted
      /\ ((Running(g) \/ LastGenOver) /\ how = "break") => setAt >= 0
      /\ (LastGenOver /\ setAt = -1 /\ how \in {"stop", "raise"})
           => FramesOfChunks(DataFramesOf(g), pulled)

\* C19: a generation is cut short by the break only if the event was set
\* after its own clear.  An interrupt read before that clear (with the
\* main thread idle, busy with an earlier command, or already holding the
\* dequeued generate command) leaves the event set only until the clear:
\* the generation starts with the event clear and, unless a later
\* interrupt arrives, writes every chunk its stream yields.
C19_EarlyInterruptErased ==
  /\ []C19_ErasedInvariant
  /\ [][(AtGenerateBranch /\ pc' # pc)
         => (erased' = interrupted /\ ~interrupted' /\ setAt' = -1)]_vars

\* The event was set when the generate branch ran its clear, no interrupt
\* followed, and the generation has written both chunks of its stream and
\* the end-marker.
C19_Witness ==
  /\ LastGenOver
  /\ erased /\ setAt = -1 /\ ~interrupted
  /\ how = "stop"
  /\ Len(pulled) = 2
  /\ Len(DataFramesOf(cmd.seq)) = 2
  /\ Len(EndFramesOf(cmd.seq)) = 1

\* ------------------------------------------------------------------- C20
\* The input has ended and no quit command was ever enqueued.
EofWithoutQuit == rpc = "eof" /\ \A i \in 1..Len(enq) : enq[i].cmd # "quit"

\* C20: once the input has ended without a quit command having been
\* enqueued, the process never terminates: the main thread works off the
\* queue and then waits in command_queue.get().
C20_EofIsNotShutdown ==
  EofWithoutQuit => (pc # "exited" /\ exitCode = -1)

====
